---- MODULE Spec2Model ----
(***************************************************************************)
(* Model of the Shiptivity API server (src/server.js): the clients table   *)
(* and the PUT /api/v1/clients/:id handler that changes a client's status  *)
(* (swimlane) and priority and re-ranks the other clients.                 *)
(*                                                                         *)
(* The handler is synchronous (better-sqlite3, no await), so one request   *)
(* is one atomic action.  The statements it runs against the table are     *)
(* kept in `updates`, the table it started from in `before`.  The table is *)
(* a sequence of rows in the order `select * from clients` returns them;   *)
(* the GET routes only read it and are left out.                           *)
(*                                                                         *)
(* Spec and SpecInvalid run one request after the other.  SpecFailing has  *)
(* the store refuse one statement of each call.  SpecConcurrent has two    *)
(* requests arrive at any time and splits the handler into one step per    *)
(* statement, with the event loop deciding when a handler may be entered.  *)
(***************************************************************************)
EXTENDS Integers, Sequences, FiniteSets

\* ---------------------------------------------------------------- bounds
NumClients == 3      \* rows of the clients table
MaxPriority == 3     \* largest priority a request carries or the table holds

\* ------------------------------------------------------------- constants
Lanes == {"backlog", "in-progress", "complete"}
Undefined == "undefined"          \* a body field that is not sent
InvalidLane == "archived"         \* a status string that is no swimlane
Ids == 1..NumClients
UnknownId == NumClients + 1       \* an id no row has

NoPriority == [given |-> FALSE, value |-> 0]
Given(p) == [given |-> TRUE, value |-> p]

VARIABLES
  db,         \* the clients table: a sequence of rows [id, status, priority]
  pc,         \* "idle" | "responded"
  request,    \* the request handled last: [id, status, priority]
  before,     \* the table when that request arrived
  updates,    \* the UPDATE statements the handler ran, in order
  blocks,     \* which of the handler's three adjustment blocks ran
  iterations, \* how many times the body of a shift loop (lines 161, 175) ran
  planned,    \* the statements the call issues when none of them throws
  failedAt,   \* position in planned of the statement that threw, 0 when none
  calls,      \* the requests of two clients that do not wait for each other
              \* and the handlers working on them
  response    \* the response sent: [code, body]

vars == <<db, pc, request, before, updates, blocks, iterations, planned, failedAt,
         calls, response>>

\* ------------------------------------------------------- table helpers
RowIds(table) == {table[i].id : i \in DOMAIN table}

\* the find of lines 163 and 177 without its status test
FindByPriorityAnyLane(clients, p, s) ==
  LET hits == {i \in DOMAIN clients : clients[i].priority = p}
  IN IF hits = {} THEN 0 ELSE CHOOSE i \in hits : \A j \in hits : i <= j

\* Array.prototype.find over (priority, status): index of the first match, 0 if none
FindByPriority(clients, p, s) ==
  LET hits == {i \in DOMAIN clients : clients[i].priority = p /\ clients[i].status = s}
  IN IF hits = {} THEN 0 ELSE CHOOSE i \in hits : \A j \in hits : i <= j

\* a find that falls back to the first row when no row has the id
FindByIdOrFirst(clients, id) ==
  LET hits == {i \in DOMAIN clients : clients[i].id = id}
  IN IF hits = {} THEN 1 ELSE CHOOSE i \in hits : \A j \in hits : i <= j

\* clients.find(client => client.id === id): index of the row, 0 if none
FindById(clients, id) ==
  LET hits == {i \in DOMAIN clients : clients[i].id = id}
  IN IF hits = {} THEN 0 ELSE CHOOSE i \in hits : \A j \in hits : i <= j

\* JavaScript truthiness of the two body fields
TruthyStatus(status) == status # Undefined

\* a test for "priority was sent" in place of the truthiness test: 0 counts
PrioritySentAtAll(priority) == priority.given

TruthyPriority(priority) == priority.given /\ priority.value # 0

\* validateId: the id must name a row
validateId(table, id) == \E i \in DOMAIN table : table[i].id = id

\* Once(F, e): F applied to the value of e, with e evaluated a single time
Once(F(_), e) == CHOOSE r \in {F(v) : v \in {e}} : TRUE

\* "UPDATE clients SET priority = ? WHERE id = ?"
UpdatePriority(st, priority, id) ==
  [st EXCEPT !.db = [i \in DOMAIN @ |->
                       IF @[i].id = id THEN [@[i] EXCEPT !.priority = priority] ELSE @[i]],
             !.log = Append(@, [id |-> id, status |-> Undefined, priority |-> priority])]

\* an INSERT where the UPDATE should be: the moved client becomes a new row
InsertStatusPriority(st, status, priority, id) ==
  [st EXCEPT !.db = Append(@, [id |-> Len(@) + 1, status |-> status, priority |-> priority]),
             !.log = Append(@, [id |-> id, status |-> status, priority |-> priority])]

\* "UPDATE clients SET status = ?, priority = ? WHERE id = ?"
UpdateStatusPriority(st, status, priority, id) ==
  [st EXCEPT !.db = [i \in DOMAIN @ |->
                       IF @[i].id = id
                       THEN [@[i] EXCEPT !.status = status, !.priority = priority]
                       ELSE @[i]],
             !.log = Append(@, [id |-> id, status |-> status, priority |-> priority])]

\* ------------------------------------------------- the handler's blocks
\* the shift loops ran their body `passes` times
Iterated(st, passes) == [st EXCEPT !.steps = passes]

\* lines 158-170: moving up, every occupant of [priority, oldPriority-1] gets +1
RECURSIVE ShiftUp(_, _, _, _, _, _)
ShiftUp(st, clients, status, currentPriority, oldPriority, passes) ==
  IF currentPriority = oldPriority THEN Iterated(st, passes)
  ELSE LET moveClient == FindByPriority(clients, currentPriority, status)
           next == currentPriority + 1
       IN ShiftUp(IF moveClient # 0
                  THEN UpdatePriority(st, next, clients[moveClient].id)
                  ELSE st,
                  clients, status, next, oldPriority, passes + 1)

\* lines 172-185: moving down, every occupant of [oldPriority+1, priority] gets -1
RECURSIVE ShiftDown(_, _, _, _, _, _)
ShiftDown(st, clients, status, currentPriority, oldPriority, passes) ==
  IF currentPriority = oldPriority THEN Iterated(st, passes)
  ELSE LET moveClient == FindByPriority(clients, currentPriority, status)
           next == currentPriority - 1
       IN ShiftDown(IF moveClient # 0
                    THEN UpdatePriority(st, next, clients[moveClient].id)
                    ELSE st,
                    clients, status, next, oldPriority, passes + 1)

\* lines 151-191: if (priorityHasChanged) { ... }
PriorityBlock(st, clients, client, status, priority) ==
  LET oldPriority == client.priority
      shifted == IF oldPriority > priority
                 THEN ShiftUp(st, clients, status, priority, oldPriority, 0)
                 ELSE ShiftDown(st, clients, status, priority, oldPriority, 0)
  IN [UpdatePriority(shifted, priority, client.id) EXCEPT !.blocks = @ \cup {"priority"}]

\* lines 199-210: the largest priority in the new lane, 0 when it is empty
RECURSIVE MaxPriorityIn(_, _, _, _)
MaxPriorityIn(clients, status, i, maxPriority) ==
  IF i > Len(clients) THEN maxPriority
  ELSE MaxPriorityIn(clients, status, i + 1,
                     IF clients[i].priority > maxPriority /\ clients[i].status = status
                     THEN clients[i].priority ELSE maxPriority)

\* lines 221-229 and 254-260: close the gap in the old lane
RECURSIVE PullUp(_, _, _, _, _)
PullUp(st, clients, oldStatus, oldPriority, i) ==
  IF i > Len(clients) THEN st
  ELSE PullUp(IF clients[i].priority > oldPriority /\ clients[i].status = oldStatus
              THEN UpdatePriority(st, clients[i].priority - 1, clients[i].id)
              ELSE st,
              clients, oldStatus, oldPriority, i + 1)

\* lines 240-247: make room in the new lane
RECURSIVE PushDown(_, _, _, _, _)
PushDown(st, clients, status, priority, i) ==
  IF i > Len(clients) THEN st
  ELSE PushDown(IF clients[i].priority >= priority /\ clients[i].status = status
                THEN UpdatePriority(st, clients[i].priority + 1, clients[i].id)
                ELSE st,
                clients, status, priority, i + 1)

\* lines 219 and 252 followed by the loop: re-read the table, then pull up
Refreshed(st, oldStatus, oldPriority) ==
  PullUp(st, st.db, oldStatus, oldPriority, 1)

\* the status-only block without the "+ 1" of line 210
StatusOnlyBlockAtMax(st, clients, client, id, status) ==
  LET oldStatus == client.status
      oldPriority == client.priority
      newPriority == MaxPriorityIn(clients, status, 1, 0)
  IN [Once(LAMBDA moved : Refreshed(moved, oldStatus, oldPriority),
           UpdateStatusPriority(st, status, newPriority, id))
        EXCEPT !.blocks = @ \cup {"status-only"}]

\* lines 192-230: if (statusHasChanged && !priority) { ... }
StatusOnlyBlock(st, clients, client, id, status) ==
  LET oldStatus == client.status
      oldPriority == client.priority
      newPriority == MaxPriorityIn(clients, status, 1, 0) + 1
  IN [Once(LAMBDA moved : Refreshed(moved, oldStatus, oldPriority),
           UpdateStatusPriority(st, status, newPriority, id))
        EXCEPT !.blocks = @ \cup {"status-only"}]

\* lines 232-261: if (statusHasChanged && priority) { ... }
\* client is an element of clients, so client.status = status changes the array too
StatusPriorityBlock(st, clients, client, id, status, priority) ==
  LET oldStatus == client.status
      oldPriority == client.priority
      ci == FindById(clients, id)
      pushed == Once(LAMBDA inMemory : PushDown(st, inMemory, status, priority, 1),
                     [clients EXCEPT ![ci].status = status])
  IN [Once(LAMBDA moved : Refreshed(moved, oldStatus, oldPriority),
           UpdateStatusPriority(pushed, status, priority, id))
        EXCEPT !.blocks = @ \cup {"status-and-priority"}]

\* lines 140-147
StatusHasChanged(status, client) ==
  TruthyStatus(status) /\ status # client.status

\* line 146 without the comparison: any priority sent counts as a change
PrioritySent(priority, client) ==
  TruthyPriority(priority)

PriorityHasChanged(priority, client) ==
  TruthyPriority(priority) /\ priority.value # client.priority

\* the three ifs of lines 151, 192 and 232, each on the state the one before left
IfPriorityHasChanged(st, clients, client, status, priority) ==
  IF PriorityHasChanged(priority, client)
  THEN PriorityBlock(st, clients, client, status, priority.value)
  ELSE st

IfStatusOnly(st, clients, client, id, status, priority) ==
  IF StatusHasChanged(status, client) /\ ~TruthyPriority(priority)
  THEN StatusOnlyBlock(st, clients, client, id, status)
  ELSE st

IfStatusAndPriority(st, clients, client, id, status, priority) ==
  IF StatusHasChanged(status, client) /\ TruthyPriority(priority)
  THEN StatusPriorityBlock(st, clients, client, id, status, priority.value)
  ELSE st

\* lines 117-264: the whole handler, as a function of the table and the request.
\* With an unknown id the 400 is sent (line 121) and the handler goes on without
\* returning: clients.find gives undefined, so reading client.status (line 143) or
\* client.priority (line 146) throws, or, with neither field truthy, no block
\* runs; no statement is run either way.
Handle(table, id, status, priority) ==
  LET st0 == [db |-> table, log |-> <<>>, blocks |-> {}, steps |-> 0,
              code |-> IF validateId(table, id) THEN 200 ELSE 400]
  IN IF FindById(table, id) = 0
     THEN st0
     ELSE Once(LAMBDA client :
                 IfStatusAndPriority(
                   IfStatusOnly(
                     IfPriorityHasChanged(st0, table, client, status, priority),
                     table, client, id, status, priority),
                   table, client, id, status, priority),
               table[FindById(table, id)])

\* ------------------------------------------------------ lane predicates
InLane(table, lane) == {i \in DOMAIN table : table[i].status = lane}
Statuses(table) == {table[i].status : i \in DOMAIN table}

\* I1 for one lane: the priorities of its N clients are exactly 1..N, no duplicates
DenseLane(table, lane) ==
  LET members == InLane(table, lane)
  IN /\ {table[i].priority : i \in members} = 1..Cardinality(members)
     /\ \A i, j \in members : table[i].priority = table[j].priority => i = j

Dense(table) == \A lane \in Lanes \cup Statuses(table) : DenseLane(table, lane)

Unique(table) ==
  \A i, j \in DOMAIN table :
    (table[i].status = table[j].status /\ table[i].priority = table[j].priority) => i = j

\* ------------------------------------------------------------- requests
Priorities == {NoPriority} \cup {Given(p) : p \in 1..MaxPriority}

\* requests that meet the documented preconditions of the PUT route
ValidRequests ==
  [id : Ids, status : Lanes \cup {Undefined}, priority : Priorities]

\* every request the route can receive: also an unknown id, a status that is
\* no lane, and priority 0 (the handler validates neither status nor priority)
AnyRequests ==
  [id : Ids \cup {UnknownId},
   status : Lanes \cup {Undefined, InvalidLane},
   priority : Priorities \cup {Given(0)}]

IsValid(table, req) ==
  /\ req.id \in RowIds(table)
  /\ req.status \in Lanes \cup {Undefined}
  /\ req.priority.given => req.priority.value >= 1

NoRequest == [id |-> 0, status |-> Undefined, priority |-> NoPriority]
NoResponse == [code |-> 0, body |-> <<>>]

\* two HTTP clients, each sending one PUT without waiting for the other:
\* coming are the requests not sent yet, waiting those that reached the
\* server, running the handlers that were entered and have not returned
Calls == {"first", "second"}
NoCalls == [coming |-> Calls, waiting |-> {}, running |-> {}]

\* --------------------------------------------------------- state machine
\* the table has one row per id, in id order, and every lane is ranked 1..N
TableOf(place) ==
  [i \in Ids |-> [id |-> i, status |-> place[i][1], priority |-> place[i][2]]]

InitialTables ==
  {TableOf(place) : place \in {f \in [Ids -> Lanes \X (1..NumClients)] : Dense(TableOf(f))}}

Init ==
  /\ db \in InitialTables
  /\ pc = "idle"
  /\ request = NoRequest
  /\ before = db
  /\ updates = <<>>
  /\ blocks = {}
  /\ iterations = 0
  /\ planned = <<>>
  /\ failedAt = 0
  /\ calls = NoCalls
  /\ response = NoResponse

\* PUT /api/v1/clients/:id
Put(req) ==
  /\ pc = "idle"
  /\ \E out \in {Handle(db, req.id, req.status, req.priority)} :
        /\ \A i \in DOMAIN out.db : out.db[i].priority <= MaxPriority
        /\ db' = out.db
        /\ updates' = out.log
        /\ blocks' = out.blocks
        /\ iterations' = out.steps
        /\ planned' = out.log
        /\ response' = [code |-> out.code,
                         body |-> IF out.code = 200 THEN out.db ELSE <<>>]
  /\ failedAt' = 0
  /\ request' = req
  /\ before' = db
  /\ pc' = "responded"
  /\ UNCHANGED calls

PutValid == \E req \in ValidRequests : Put(req)

\* a request that breaks a documented precondition
PutInvalid == \E req \in AnyRequests : ~IsValid(db, req) /\ Put(req)

\* the caller has read the response; the server waits for the next request
ResponseDelivered ==
  /\ pc = "responded"
  /\ pc' = "idle"
  /\ request' = NoRequest
  /\ before' = db
  /\ updates' = <<>>
  /\ blocks' = {}
  /\ iterations' = 0
  /\ planned' = <<>>
  /\ failedAt' = 0
  /\ response' = NoResponse
  /\ UNCHANGED <<db, calls>>

\* stmt.run(...) in autocommit mode: each statement that returns is stored
RECURSIVE Committed(_, _)
Committed(table, log) ==
  IF log = <<>> THEN table
  ELSE LET u == Head(log)
       IN Committed([i \in DOMAIN table |->
                       IF table[i].id = u.id
                       THEN [id |-> u.id,
                             status |-> IF u.status = Undefined
                                        THEN table[i].status ELSE u.status,
                             priority |-> u.priority]
                       ELSE table[i]],
                    Tail(log))

\* a handler that catches the error of statement k and carries on
RunSwallows(table, log, k) ==
  [db |-> Committed(table, SubSeq(log, 1, k - 1) \o SubSeq(log, k + 1, Len(log))),
   log |-> log,
   code |-> 200]

\* statement k of the call throws: the handler has no try/catch, so the
\* exception leaves it at that statement and Express answers 500
RunThrows(table, log, k) ==
  [db |-> Committed(table, SubSeq(log, 1, k - 1)),
   log |-> SubSeq(log, 1, k),
   code |-> 500]

\* PUT /api/v1/clients/:id during which the store refuses one statement;
\* blocks and iterations are kept for calls that return and stay empty here
PutFailing(req) ==
  /\ pc = "idle"
  /\ \E out \in {Handle(db, req.id, req.status, req.priority)} :
        /\ \A i \in DOMAIN out.db : out.db[i].priority <= MaxPriority
        /\ planned' = out.log
        /\ \E k \in 1..Len(out.log) :
              /\ failedAt' = k
              /\ \E run \in {RunThrows(db, out.log, k)} :
                    /\ \A i \in DOMAIN run.db : run.db[i].priority <= MaxPriority
                    /\ db' = run.db
                    /\ updates' = run.log
                    /\ response' = [code |-> run.code,
                                     body |-> IF run.code = 200 THEN run.db ELSE <<>>]
  /\ blocks' = {}
  /\ iterations' = 0
  /\ request' = req
  /\ before' = db
  /\ pc' = "responded"
  /\ UNCHANGED calls

PutFails == \E req \in ValidRequests : PutFailing(req)

\* ------------------------------------------- two calls, one event loop
\* a handler that yields to the event loop between its statements
HandlersAnytime == TRUE

\* the handler of a request is a plain callback  (req, res) => { ... }  with
\* no await and no callback inside: once it is on the stack nothing else
\* runs until it returns
CanRun == calls.running = {}

\* a request reaches the server, also while a handler runs
Arrive ==
  /\ calls.coming # {}
  /\ \E c \in {CHOOSE c \in calls.coming : TRUE} :
        calls' = [calls EXCEPT !.coming = @ \ {c}, !.waiting = @ \cup {c}]
  /\ UNCHANGED <<db, pc, request, before, updates, blocks, iterations, planned,
                 failedAt, response>>

\* lines 118-149: the handler is entered, reads the request and the snapshot
\* `clients`; from here on its statements are those of Handle on that snapshot
Start ==
  /\ calls.waiting # {}
  /\ CanRun
  /\ \E req \in ValidRequests :
        \E out \in {Handle(db, req.id, req.status, req.priority)} :
          /\ \A i \in DOMAIN out.db : out.db[i].priority <= MaxPriority
          /\ calls' = [calls EXCEPT
                         !.waiting = @ \ {CHOOSE c \in @ : TRUE},
                         !.running = @ \cup {[req |-> req, snapshot |-> db,
                                               todo |-> out.log, issued |-> <<>>]}]
  /\ UNCHANGED <<db, pc, request, before, updates, blocks, iterations, planned,
                 failedAt, response>>

\* one stmt.run(...) of handler h
Step(h) ==
  /\ h \in calls.running
  /\ h.todo # <<>>
  /\ db' = Committed(db, <<Head(h.todo)>>)
  /\ calls' = [calls EXCEPT
                 !.running = (@ \ {h}) \cup
                             {[h EXCEPT !.todo = Tail(@),
                                        !.issued = Append(@, Head(h.todo))]}]
  /\ UNCHANGED <<pc, request, before, updates, blocks, iterations, planned,
                 failedAt, response>>

\* lines 262-263: the final select is sent and the handler returns; the
\* server keeps nothing of the call
Finish(h) ==
  /\ h \in calls.running
  /\ h.todo = <<>>
  /\ calls' = [calls EXCEPT !.running = @ \ {h}]
  /\ UNCHANGED <<db, pc, request, before, updates, blocks, iterations, planned,
                 failedAt, response>>

Next == PutValid \/ ResponseDelivered

NextConcurrent ==
  \/ Arrive
  \/ Start
  \/ \E h \in calls.running : Step(h)
  \/ \E h \in calls.running : Finish(h)

SpecConcurrent == Init /\ [][NextConcurrent]_vars

NextFailing == PutFails \/ ResponseDelivered

SpecFailing == Init /\ [][NextFailing]_vars

NextInvalid == PutInvalid \/ ResponseDelivered

Spec == Init /\ [][Next]_vars

SpecInvalid == Init /\ [][NextInvalid]_vars

\* ------------------------------------------------------------ type check
TypeOK ==
  /\ pc \in {"idle", "responded"}
  /\ Len(db) = NumClients
  /\ \A i \in DOMAIN db : db[i].priority \in 1..MaxPriority

\* ------------------------------------------------- reading the last call
Responded == pc = "responded"
TargetKnown == Responded /\ request.id \in RowIds(before)
ValidCall == Responded /\ IsValid(before, request)
TargetBefore == before[FindById(before, request.id)]
TargetAfter == db[FindById(db, request.id)]
OldStatus == TargetBefore.status
OldPriority == TargetBefore.priority
NewPriority == request.priority.value
\* the rows other than the target
Others == {i \in DOMAIN before : before[i].id # request.id}

\* the four kinds of call of the route's documentation
NoOpCall ==
  /\ TargetKnown
  /\ request.status \in {Undefined, OldStatus}
  /\ (~request.priority.given \/ NewPriority = OldPriority)
PriorityOnlyCall ==
  /\ ValidCall
  /\ request.status \in {Undefined, OldStatus}
  /\ request.priority.given /\ NewPriority # OldPriority
StatusOnlyCall ==
  /\ TargetKnown
  /\ request.status \notin {Undefined, OldStatus}
  /\ ~request.priority.given
StatusAndPriorityCall ==
  /\ ValidCall
  /\ request.status \notin {Undefined, OldStatus}
  /\ request.priority.given

\* ---------------------------------------------------------------- claims

\* C1 (density): a valid call on a table whose lanes are each ranked exactly
\* 1..N leaves every lane ranked exactly 1..N.
DensityPreserved == (ValidCall /\ Dense(before)) => Dense(db)

\* C2 (uniqueness): a valid call on a table where no two clients of a status
\* share a priority leaves no two clients of a status with the same priority.
UniquenessPreserved == (ValidCall /\ Unique(before)) => Unique(db)

\* C3 (rotation): a priority-only change from O to P, with the status omitted
\* or repeated, puts the target at P, moves the lane's clients between the two
\* slots one step towards O and leaves every other client of the lane alone.
RotationCorrect ==
  PriorityOnlyCall =>
    /\ TargetAfter = [TargetBefore EXCEPT !.priority = NewPriority]
    /\ \A i \in Others :
         before[i].status = OldStatus =>
           db[i] = [before[i] EXCEPT !.priority =
                      IF NewPriority < OldPriority /\ @ \in NewPriority..(OldPriority - 1)
                      THEN @ + 1
                      ELSE IF NewPriority > OldPriority /\ @ \in (OldPriority + 1)..NewPriority
                      THEN @ - 1
                      ELSE @]

\* C4 (status and priority): moving the target to another lane L at priority P
\* gives +1 to the clients of L at P or below it, leaves the clients of L above
\* P alone, puts the target at (L, P) and gives -1 to the clients of the old
\* lane that were below the target.
StatusAndPriorityCorrect ==
  StatusAndPriorityCall =>
    /\ TargetAfter = [TargetBefore EXCEPT !.status = request.status,
                                          !.priority = NewPriority]
    /\ \A i \in Others :
         /\ (before[i].status = request.status /\ before[i].priority >= NewPriority)
              => db[i] = [before[i] EXCEPT !.priority = @ + 1]
         /\ (before[i].status = request.status /\ before[i].priority < NewPriority)
              => db[i] = before[i]
         /\ (before[i].status = OldStatus /\ before[i].priority > OldPriority)
              => db[i] = [before[i] EXCEPT !.priority = @ - 1]

\* the largest priority among the clients of a lane, 0 for an empty lane
MaxOfLane(table, lane) ==
  LET ps == {table[i].priority : i \in InLane(table, lane)}
  IN IF ps = {} THEN 0 ELSE CHOOSE m \in ps : \A q \in ps : q <= m

\* C5 (status only): moving the target to another lane with no priority puts it
\* at (largest priority of that lane) + 1, or at 1 when the lane is empty, gives
\* -1 to the clients of the old lane that were below it and changes nothing else.
StatusOnlyCorrect ==
  StatusOnlyCall =>
    /\ TargetAfter = [TargetBefore EXCEPT !.status = request.status,
                                          !.priority = MaxOfLane(before, request.status) + 1]
    /\ \A i \in Others :
         db[i] = IF before[i].status = OldStatus /\ before[i].priority > OldPriority
                 THEN [before[i] EXCEPT !.priority = @ - 1]
                 ELSE before[i]

\* a status-only move into a lane that has clients, out of a lane where a
\* client was ranked below the target
StatusOnlyWitness ==
  /\ StatusOnlyCall
  /\ InLane(before, request.status) # {}
  /\ \E i \in Others : before[i].status = OldStatus /\ before[i].priority > OldPriority
  /\ blocks = {"status-only"}

\* C6 (no-op): a call whose status and priority are each omitted or equal to
\* the target's current value runs no UPDATE and answers with the table as it
\* was before the call.
NoOpCorrect ==
  NoOpCall =>
    /\ updates = <<>>
    /\ db = before
    /\ response = [code |-> 200, body |-> before]

\* a call that repeats the target's current status and priority
NoOpWitness ==
  /\ NoOpCall
  /\ request.status = OldStatus
  /\ request.priority.given /\ NewPriority = OldPriority
  /\ response.code = 200

\* the ids of a table, row by row
IdsOf(table) == [i \in DOMAIN table |-> table[i].id]

\* C7 (identity): a call creates and deletes no client: the table has the same
\* ids, row for row, as before the call and as at the start, its rows have no
\* other fields than id, status and priority, and every UPDATE names a row.
IdentityPreserved ==
  /\ IdsOf(db) = IdsOf(before)
  /\ IdsOf(db) = [i \in Ids |-> i]
  /\ \A i \in DOMAIN db : DOMAIN db[i] = {"id", "status", "priority"}
  /\ \A k \in DOMAIN updates : updates[k].id \in RowIds(before)

\* a call that changed both the status and the priority of clients
IdentityWitness ==
  /\ Responded
  /\ Len(updates) >= 2
  /\ TargetAfter.status # OldStatus
  /\ \E i \in Others : db[i].priority # before[i].priority

\* C8 (rejection): a call with an unknown id, a status that is no lane or a
\* priority that is not positive is answered 400 with no block of the
\* reordering run and no UPDATE issued.
InvalidRejected ==
  (Responded /\ ~IsValid(before, request)) =>
    /\ response.code = 400
    /\ blocks = {}
    /\ updates = <<>>

\* C9 (exclusive cases): every call runs the steps of exactly one case: none for
\* a no-op, the same-lane shift for a priority-only change, the bottom-of-lane
\* move for a status-only change, the make-room move alone for a change of both.
ExclusiveCase ==
  ValidCall =>
    blocks = IF NoOpCall THEN {}
             ELSE IF PriorityOnlyCall THEN {"priority"}
             ELSE IF StatusOnlyCall THEN {"status-only"}
             ELSE {"status-and-priority"}

\* C10 (one write per client): in a call no client is named by two UPDATEs, and
\* every client an UPDATE names has a status or priority after the call that
\* differs from the one it had before.
OneWritePerClient ==
  ValidCall =>
    /\ \A k, l \in DOMAIN updates : updates[k].id = updates[l].id => k = l
    /\ \A k \in DOMAIN updates :
         db[FindById(db, updates[k].id)] # before[FindById(before, updates[k].id)]

\* C11 (lane frame): a call changes no client of a lane that is neither the
\* target's old lane nor the lane the request names; a priority-only change
\* names no other lane, so it changes no client outside the target's lane.
LaneFrame ==
  TargetKnown =>
    \A i \in Others :
      before[i].status \notin {OldStatus, request.status} => db[i] = before[i]

\* a call that moved other clients while a client sat in a third lane
LaneFrameWitness ==
  /\ ValidCall
  /\ \E i \in Others : before[i].status \notin {OldStatus, request.status}
  /\ \E j \in Others : db[j] # before[j]

\* C18 (unknown id): a call whose id names no row, whatever its body, is
\* answered 400, runs no UPDATE and leaves every row as it was.
UnknownIdUntouched ==
  (Responded /\ request.id \notin RowIds(before)) =>
    /\ updates = <<>>
    /\ db = before
    /\ response.code = 400

\* a call with an unknown id whose body asks for a new status and a priority
UnknownIdWitness ==
  /\ Responded
  /\ request.id = UnknownId
  /\ request.status \in Lanes
  /\ request.priority.given /\ NewPriority >= 1
  /\ response.code = 400

\* C15 (falsy priority): a call that names another lane and sends priority 0 is
\* handled as the same call without a priority: only the status-only block
\* runs, the target goes to (largest priority of the new lane) + 1, the old
\* lane's gap is closed, and no row ever holds priority 0.
FalsyPriorityIsStatusOnly ==
  /\ \A i \in DOMAIN db : db[i].priority # 0
  /\ (TargetKnown /\ request.status \notin {Undefined, OldStatus}
        /\ request.priority = Given(0)) =>
       /\ blocks = {"status-only"}
       /\ TargetAfter = [TargetBefore EXCEPT !.status = request.status,
                                             !.priority = MaxOfLane(before, request.status) + 1]
       /\ \A i \in Others :
            db[i] = IF before[i].status = OldStatus /\ before[i].priority > OldPriority
                    THEN [before[i] EXCEPT !.priority = @ - 1]
                    ELSE before[i]

\* a lane change with priority 0 into a lane that has clients, out of a lane
\* where a client was ranked below the target
FalsyPriorityWitness ==
  /\ TargetKnown
  /\ request.status \in Lanes \ {OldStatus}
  /\ request.priority = Given(0)
  /\ InLane(before, request.status) # {}
  /\ \E i \in Others : before[i].status = OldStatus /\ before[i].priority > OldPriority

\* C16 (bystanders): after a valid call on a table whose lanes are each ranked
\* 1..N, two clients other than the target that share a lane before and after
\* the call are in the same strict order of priority as before.
BystanderOrderKept ==
  (ValidCall /\ Dense(before)) =>
    \A i, j \in Others :
      (/\ before[i].status = before[j].status
       /\ db[i].status = db[j].status
       /\ before[i].priority < before[j].priority) => db[i].priority < db[j].priority

\* C17 (round trip): after a valid call with explicit status and priority on a
\* table whose lanes are each ranked 1..N, the call that sends the target back
\* to its old status and priority leaves the table as it was before the first.
RoundTripRestores ==
  (ValidCall /\ Dense(before) /\ request.status \in Lanes /\ request.priority.given) =>
    Handle(db, request.id, OldStatus, Given(OldPriority)).db = before

\* the priorities a priority-only move from O to P scans: P..O-1 going up,
\* O+1..P going down
ScannedSlots ==
  IF NewPriority < OldPriority
  THEN NewPriority..(OldPriority - 1)
  ELSE (OldPriority + 1)..NewPriority

\* the scanned slots that a client of the target's lane holds
OccupiedSlots ==
  {p \in ScannedSlots :
     \E i \in Others : before[i].status = OldStatus /\ before[i].priority = p}

\* C12 (shift loop): in a priority-only move from O to P the loop body runs
\* |P - O| times, an empty slot gives no UPDATE, every occupied slot gives one,
\* and after the loop one UPDATE sets the target to P.
ShiftLoopCorrect ==
  PriorityOnlyCall =>
    /\ iterations = Cardinality(ScannedSlots)
    /\ Len(updates) = Cardinality(OccupiedSlots) + 1
    /\ updates[Len(updates)] =
         [id |-> request.id, status |-> Undefined, priority |-> NewPriority]
    /\ TargetAfter.priority = NewPriority

\* the iteration count and the final UPDATE alone
ShiftLoopRuns ==
  PriorityOnlyCall =>
    /\ iterations = Cardinality(ScannedSlots)
    /\ updates[Len(updates)] =
         [id |-> request.id, status |-> Undefined, priority |-> NewPriority]

\* ---------------------------------------------------------------- C14
Failed == Responded /\ failedAt > 0

\* the last of the statements a..b of planned that names client id and
\* satisfies Sets, 0 when there is none
LastOn(id, a, b, Sets(_)) ==
  LET hits == {n \in a..b : planned[n].id = id /\ Sets(planned[n])}
  IN IF hits = {} THEN 0 ELSE CHOOSE n \in hits : \A m \in hits : m <= n

\* row i as the statements before the failed one leave it
RowAfterPrefix(i) ==
  LET id == before[i].id
      p == LastOn(id, 1, failedAt - 1, LAMBDA u : TRUE)
      s == LastOn(id, 1, failedAt - 1, LAMBDA u : u.status # Undefined)
  IN [id |-> id,
      status |-> IF s = 0 THEN before[i].status ELSE planned[s].status,
      priority |-> IF p = 0 THEN before[i].priority ELSE planned[p].priority]

\* C14 as amended (store write failure): the failed statement is attempted
\* once, the statements before it stay applied, the statements after it are
\* never issued, and the call answers 500 with no snapshot.
FailureHaltsSequence ==
  Failed =>
    /\ updates = SubSeq(planned, 1, failedAt)
    /\ \A i \in DOMAIN before : db[i] = RowAfterPrefix(i)
    /\ response = [code |-> 500, body |-> <<>>]

\* a failing call with statements applied before the failure and statements
\* left unissued after it
FailureWitness ==
  /\ Failed
  /\ 1 < failedAt
  /\ failedAt < Len(planned)
  /\ db # before

\* C14 as written: the statements after the failed one are still issued and
\* the call returns a snapshot of what was applied.
FailureDoesNotHalt ==
  Failed =>
    /\ Len(updates) = Len(planned)
    /\ response = [code |-> 200, body |-> db]

\* ---------------------------------------------------------------- C13
\* handler h has read its snapshot and has statements left to issue
MidSequence(h) == h \in calls.running /\ h.todo # <<>>

\* C13 as amended (concurrent reorder calls): the handlers of two calls that
\* arrive concurrently do not interleave.  At most one call is between its
\* snapshot read and its response, the table then holds its snapshot plus
\* its own statements only, and the call ends as it would have run alone
\* from the table it read.
CallsDoNotInterleave ==
  /\ Cardinality(calls.running) <= 1
  /\ \A h \in calls.running :
       /\ db = Committed(h.snapshot, h.issued)
       /\ h.todo = <<>> =>
            db = Handle(h.snapshot, h.req.id, h.req.status, h.req.priority).db

\* one call is between two of its statements while the other has arrived, on
\* a table with a single lane in use, so that whatever the other call asks
\* it touches a lane of the first
ConcurrentWitness ==
  \E h \in calls.running :
    /\ MidSequence(h)
    /\ h.issued # <<>>
    /\ calls.waiting # {}
    /\ Cardinality(Statuses(h.snapshot)) = 1

\* C13 as written: while one call is between its snapshot read and its last
\* update, the handler of another call that has arrived can run.
CallsCanInterleave ==
  ((\E h \in calls.running : MidSequence(h)) /\ calls.waiting # {}) => ENABLED Start

====
